---- MODULE Spec2Model ----
(***************************************************************************)
(* A model of the stdinout crate (src/lib.rs): the Input / Output          *)
(* selectors, the handles they hand out, and the OrExit helper.            *)
(*                                                                         *)
(* The file system, the two standard-stream locks and the error stream are *)
(* the operating-system state the crate's calls act on; they are modelled  *)
(* by what std::fs::File, std::io::Stdin / Stdout and BufReader do.        *)
(***************************************************************************)
EXTENDS Integers, Sequences, FiniteSets, TLC

(* ---------------------------------------------------------------- bounds *)
MaxLen == 2
MaxHandles == 2
NThreads == 2
MaxIn == 2
MaxOut == 2
MaxCalls == 2

(* ------------------------------------------------------------- universes *)
Threads == 1..NThreads
Paths == {"a", "b"}
Bytes == {0, 1}
None == [tag |-> "None"]
Some(x) == [tag |-> "Some", val |-> x]
Ok(x) == [tag |-> "Ok", val |-> x]
Err(e) == [tag |-> "Err", err |-> e]
Absent == [tag |-> "Absent"]
NoSel == [tag |-> "Unset"]
Free == 0

RECURSIVE SeqsUpTo(_, _)
SeqsUpTo(S, n) ==
    IF n = 0 THEN {<<>>}
    ELSE LET shorter == SeqsUpTo(S, n - 1)
         IN  shorter \cup {Append(s, x) : s \in {q \in shorter : Len(q) = n - 1}, x \in S}

Min(a, b) == IF a < b THEN a ELSE b
Max(a, b) == IF a > b THEN a ELSE b
Drop(s, n) == SubSeq(s, n + 1, Len(s))
Take(s, n) == SubSeq(s, 1, n)
Zeros(n) == [i \in 1..n |-> 0]

(* -------------------------------------------------------------- variables *)
VARIABLES
    fs,          \* path -> Absent or [tag, data, mode]: the files on disk
    input,       \* the Input selector (NoSel before Input::from)
    output,      \* the Output selector (NoSel before Output::from)
    readers,     \* the live InputReader handles buf_read handed out
    writers,     \* the live Box<Write> handles write handed out
    stdinOwner,  \* thread holding the Stdin mutex, or Free
    stdoutOwner, \* thread holding the Stdout reentrant mutex, or Free
    stdoutCount, \* how many times its owner holds the Stdout mutex
    stdinData,   \* bytes still to come on the process's standard input
    stdoutData,  \* bytes written to the process's standard output
    pc,          \* thread -> "run", or the lock() call it is blocked in
    last,        \* the last call made: [op, arg, res], res None while it has not returned
    nfSeen,      \* the Input selector has returned a not-found failure
    stderrData,  \* bytes written to the process's error stream
    proc,        \* "running", "exited" or "panicked"
    exitCode,    \* the code handed to process::exit, None before
    calls        \* number of or_exit calls made so far

vars == <<fs, input, output, readers, writers, stdinOwner, stdoutOwner,
          stdoutCount, stdinData, stdoutData, pc, last, nfSeen,
          stderrData, proc, exitCode, calls>>

ioVars == <<fs, input, output, readers, writers, stdinOwner, stdoutOwner,
            stdoutCount, stdinData, stdoutData, pc, nfSeen>>
exitVars == <<stderrData, proc, exitCode, calls>>

(* ------------------------------------------------- the operating system *)
\* A file on disk: its bytes, and whether this process may read / write it.
FileOf(data, r, w) == [tag |-> "File", data |-> data, r |-> r, w |-> w]
\* The files found on disk when the program starts, or made by other processes:
\* of every length when readable and writable, and one read-only, one write-only.
FoundFiles ==
    {FileOf([i \in 1..n |-> 1], TRUE, TRUE) : n \in 0..MaxLen}
        \cup {FileOf(<<1>>, TRUE, FALSE), FileOf(<<1>>, FALSE, TRUE)}

\* std::fs::File::open(path): read-only open of an existing file.
FileOpen(files, path) ==
    IF files[path] = Absent THEN Err("NotFound")
    ELSE IF ~files[path].r THEN Err("PermissionDenied")
    ELSE Ok(path)

\* std::fs::File::create(path): the outcome of the open(O_WRONLY|O_CREAT|O_TRUNC).
FileCreate(files, path) ==
    IF files[path] # Absent /\ ~files[path].w THEN Err("PermissionDenied")
    ELSE Ok(path)

\* A create that opens without truncating: an existing file keeps its bytes.
CreatedFile_NoTruncate(old) ==
    IF old = Absent THEN FileOf(<<>>, TRUE, TRUE) ELSE old

\* What File::create leaves on disk when it succeeds: a new empty file, or the
\* existing one cut to length zero (its permissions are kept).
CreatedFile(old) ==
    IF old = Absent THEN FileOf(<<>>, TRUE, TRUE) ELSE [old EXCEPT !.data = <<>>]

\* read(2) on a file at offset off: at most n bytes, none at or past the end.
ReadAt(data, off, n) ==
    IF off >= Len(data) THEN <<>> ELSE SubSeq(data, off + 1, Min(Len(data), off + n))

\* write(2) of bytes at offset off: overwrites, extends, and zero-fills a gap
\* when the file is shorter than the offset.
WriteAt(data, off, bytes) ==
    LET padded == IF off > Len(data) THEN data \o Zeros(off - Len(data)) ELSE data
    IN  Take(padded, off) \o bytes \o Drop(padded, Min(Len(padded), off + Len(bytes)))

\* A lock that lets its holder in again.
StdinGranted_Reentrant(owner, t) == owner = Free \/ owner = t
\* No lock at all: the raw stream is handed out.
StdinGranted_Unlocked(owner, t) == TRUE

\* Mutex<..>::lock of io::Stdin: granted only when no thread holds it (the
\* mutex is not reentrant: its holder asking again is never granted).
StdinGranted(owner, t) == owner = Free

\* ReentrantMutex<..>::lock of io::Stdout: granted when free or held by the caller.
StdoutGranted(owner, t) == owner = Free \/ owner = t

\* The capacity BufReader::new gives its buffer (8 KiB in std, scaled down).
BufCap == 2

(* ------------------------------------------------------------ selectors *)
\* P: Into<PathBuf>: the path argument's text becomes the PathBuf's contents.
IntoPathBuf(p) == [inner |-> p]

\* Input::from with the match arms collapsed: the path is ignored.
InputFrom_AlwaysStdin(path) == [tag |-> "Stdin"]

\* Input::from
InputFrom(path) ==
    IF path.tag = "Some" THEN [tag |-> "File", path |-> IntoPathBuf(path.val)]
    ELSE [tag |-> "Stdin"]

\* Output::from
OutputFrom(path) ==
    IF path.tag = "Some" THEN [tag |-> "File", path |-> IntoPathBuf(path.val)]
    ELSE [tag |-> "Stdout"]

PathArgs == {None} \cup {Some(p) : p \in Paths}

(* -------------------------------------------------------------- handles *)
RemoveAt(s, i) == SubSeq(s, 1, i - 1) \o SubSeq(s, i + 1, Len(s))
Live == Len(readers) + Len(writers)

\* InputReader(Box::new(stdin.lock())): locked is FALSE while lock() has not returned.
StdinReader(t, locked) == [kind |-> "stdin", owner |-> t, locked |-> locked]

\* What a file handle's holder has seen of it, kept while nothing else has
\* modified the file since the handle was made: the bytes passed through the
\* handle, and whether a read has reported end-of-stream.
Tracked(bytes, eof) == [valid |-> TRUE, bytes |-> bytes, eof |-> eof]
Untracked == [valid |-> FALSE, bytes |-> <<>>, eof |-> FALSE]

\* A selector that keeps one open file and hands out handles at its position.
FileReader_SharesPosition(t, path) ==
    LET same == {h \in 1..Len(readers) : readers[h].kind = "file" /\ readers[h].path = path}
    IN  [kind |-> "file", owner |-> t, path |-> path,
         off |-> IF same = {} THEN 0 ELSE readers[CHOOSE h \in same : TRUE].off,
         buf |-> <<>>, seen |-> Tracked(<<>>, FALSE)]

\* InputReader(Box::new(BufReader::new(file))): the file is opened at offset 0
\* with an empty buffer.
FileReader(t, path) ==
    [kind |-> "file", owner |-> t, path |-> path, off |-> 0, buf |-> <<>>,
     seen |-> Tracked(<<>>, FALSE)]

\* Box::new(stdout.lock())
StdoutWriter(t, locked) == [kind |-> "stdout", owner |-> t, locked |-> locked]

\* Box::new(File::create(path)?): the file is written from offset 0.
FileWriter(t, path) ==
    [kind |-> "file", owner |-> t, path |-> path, off |-> 0, seen |-> Tracked(<<>>, FALSE)]

\* A chain that replaces the failure of File::open by one of its own.
MapOpened_Other(r) == IF r.tag = "Ok" THEN Ok("InputReader") ELSE Err("Other")

\* The io::Result the .map(BufReader::new).map(Box::new).map(InputReader) chain
\* yields: a failure of File::open is handed on as it is.
MapOpened(r) == IF r.tag = "Ok" THEN Ok("InputReader") ELSE r

Returned(op, arg, res) == [op |-> op, arg |-> arg, res |-> res]
HandleCall == Returned("handle", None, None)

\* The file at path was modified through a handle other than number except.
Untrack(hs, path, except) ==
    [h \in 1..Len(hs) |->
        IF h # except /\ hs[h].kind = "file" /\ hs[h].path = path
        THEN [hs[h] EXCEPT !.seen = Untracked] ELSE hs[h]]

(* ----------------------------------------------------- selector actions *)
Running(t) == proc = "running" /\ pc[t] = "run"

\* let input = Input::from(path): no I/O, no failure.
NewInput(t, path) ==
    /\ Running(t)
    /\ input' = InputFrom(path)
    /\ nfSeen' = FALSE
    /\ last' = Returned("Input::from", path, InputFrom(path))
    /\ UNCHANGED <<fs, output, readers, writers, stdinOwner, stdoutOwner, stdoutCount,
                   stdinData, stdoutData, pc>>
    /\ UNCHANGED exitVars

\* let output = Output::from(path)
NewOutput(t, path) ==
    /\ Running(t)
    /\ output' = OutputFrom(path)
    /\ last' = Returned("Output::from", path, OutputFrom(path))
    /\ UNCHANGED <<fs, input, readers, writers, stdinOwner, stdoutOwner, stdoutCount,
                   stdinData, stdoutData, pc, nfSeen>>
    /\ UNCHANGED exitVars

\* input.buf_read()
BufRead(t) ==
    /\ Running(t)
    /\ input # NoSel
    /\ Live < MaxHandles
    /\ IF input.tag = "Stdin"
       THEN IF StdinGranted(stdinOwner, t)
            THEN /\ stdinOwner' = t
                 /\ readers' = Append(readers, StdinReader(t, TRUE))
                 /\ last' = Returned("buf_read", None, Ok("InputReader"))
                 /\ UNCHANGED <<pc, nfSeen>>
            ELSE \* lock() does not return while the mutex is held
                 /\ pc' = [pc EXCEPT ![t] = "lock_stdin"]
                 /\ readers' = Append(readers, StdinReader(t, FALSE))
                 /\ last' = Returned("buf_read", None, None)
                 /\ UNCHANGED <<stdinOwner, nfSeen>>
       ELSE LET r == MapOpened(FileOpen(fs, input.path.inner))
            IN  /\ readers' = IF r.tag = "Ok"
                              THEN Append(readers, FileReader(t, input.path.inner))
                              ELSE readers
                /\ nfSeen' = (nfSeen \/ (r.tag = "Err" /\ r.err = "NotFound"))
                /\ last' = Returned("buf_read", None, r)
                /\ UNCHANGED <<stdinOwner, pc>>
    /\ UNCHANGED <<fs, input, output, writers, stdoutOwner, stdoutCount, stdinData, stdoutData>>
    /\ UNCHANGED exitVars

\* The blocked stdin.lock() of buf_read returns once the mutex is granted.
BufReadLocked(t) ==
    /\ proc = "running"
    /\ pc[t] = "lock_stdin"
    /\ StdinGranted(stdinOwner, t)
    /\ \E h \in 1..Len(readers) :
          /\ readers[h] = StdinReader(t, FALSE)
          /\ readers' = [readers EXCEPT ![h] = StdinReader(t, TRUE)]
    /\ last' = Returned("buf_read", None, Ok("InputReader"))
    /\ stdinOwner' = t
    /\ pc' = [pc EXCEPT ![t] = "run"]
    /\ UNCHANGED <<fs, input, output, writers, stdoutOwner, stdoutCount, stdinData,
                   stdoutData, nfSeen>>
    /\ UNCHANGED exitVars

\* output.write()
Write(t) ==
    /\ Running(t)
    /\ output # NoSel
    /\ Live < MaxHandles
    /\ IF output.tag = "Stdout"
       THEN IF StdoutGranted(stdoutOwner, t)
            THEN /\ stdoutOwner' = t
                 /\ stdoutCount' = stdoutCount + 1
                 /\ writers' = Append(writers, StdoutWriter(t, TRUE))
                 /\ last' = Returned("write", None, Ok("Write"))
                 /\ UNCHANGED <<pc, fs, readers>>
            ELSE /\ pc' = [pc EXCEPT ![t] = "lock_stdout"]
                 /\ writers' = Append(writers, StdoutWriter(t, FALSE))
                 /\ last' = Returned("write", None, None)
                 /\ UNCHANGED <<stdoutOwner, stdoutCount, fs, readers>>
       ELSE LET path == output.path.inner
                r == FileCreate(fs, path)
            IN  IF r.tag = "Ok"
                THEN /\ fs' = [fs EXCEPT ![path] = CreatedFile(fs[path])]
                     /\ writers' = Append(Untrack(writers, path, 0), FileWriter(t, path))
                     /\ readers' = Untrack(readers, path, 0)
                     /\ last' = Returned("write", None, Ok("Write"))
                     /\ UNCHANGED <<stdoutOwner, stdoutCount, pc>>
                ELSE \* try!: the failure of File::create is returned
                     /\ last' = Returned("write", None, r)
                     /\ UNCHANGED <<fs, writers, readers, stdoutOwner, stdoutCount, pc>>
    /\ UNCHANGED <<input, output, stdinOwner, stdinData, stdoutData, nfSeen>>
    /\ UNCHANGED exitVars

\* The blocked stdout.lock() of write returns once the mutex is granted.
WriteLocked(t) ==
    /\ proc = "running"
    /\ pc[t] = "lock_stdout"
    /\ StdoutGranted(stdoutOwner, t)
    /\ \E h \in 1..Len(writers) :
          /\ writers[h] = StdoutWriter(t, FALSE)
          /\ writers' = [writers EXCEPT ![h] = StdoutWriter(t, TRUE)]
    /\ last' = Returned("write", None, Ok("Write"))
    /\ stdoutOwner' = t
    /\ stdoutCount' = stdoutCount + 1
    /\ pc' = [pc EXCEPT ![t] = "run"]
    /\ UNCHANGED <<fs, input, output, readers, stdinOwner, stdinData, stdoutData, nfSeen>>
    /\ UNCHANGED exitVars

(* ------------------------------------------------------- handle actions *)
ReadSizes == 1..BufCap

\* BufReader::fill_buf over a file: an empty buffer is refilled from the file.
Filled(r, data) ==
    IF r.buf = <<>>
    THEN LET chunk == ReadAt(data, r.off, BufCap)
         IN  [r EXCEPT !.buf = chunk, !.off = r.off + Len(chunk)]
    ELSE r

\* A read that wraps the file in a new BufReader on every call: what the
\* buffer held beyond the caller's n bytes is lost.
BufReaderRead_FreshBufferPerCall(r, data, n) ==
    LET chunk == ReadAt(data, r.off, Max(n, BufCap))
        k == Min(n, Len(chunk))
    IN  [rd |-> [r EXCEPT !.off = r.off + Len(chunk), !.buf = <<>>], out |-> Take(chunk, k)]

\* BufReader::read into a caller's buffer of n bytes: a request of at least the
\* buffer's capacity on an empty buffer goes to the file directly, any other
\* is served from the (re)filled buffer.  out is what the caller receives.
BufReaderRead(r, data, n) ==
    IF r.buf = <<>> /\ n >= BufCap
    THEN LET out == ReadAt(data, r.off, n)
         IN  [rd |-> [r EXCEPT !.off = r.off + Len(out)], out |-> out]
    ELSE LET f == Filled(r, data)
             k == Min(n, Len(f.buf))
         IN  [rd |-> [f EXCEPT !.buf = Drop(f.buf, k)], out |-> Take(f.buf, k)]

\* The holder's record after it was given out (nothing: end-of-stream).
Given(seen, out) ==
    IF seen.valid THEN Tracked(seen.bytes \o out, seen.eof \/ out = <<>>) ELSE seen

Holds(t, hs, h) ==
    /\ h \in 1..Len(hs)
    /\ hs[h].owner = t
    /\ (IF hs[h].kind = "file" THEN TRUE ELSE hs[h].locked)

\* impl Read for InputReader: read(buf) with buf.len() = n
Read(t, h, n) ==
    /\ Running(t)
    /\ Holds(t, readers, h)
    /\ IF readers[h].kind = "stdin"
       THEN /\ stdinData' = Drop(stdinData, Min(n, Len(stdinData)))
            /\ UNCHANGED readers
       ELSE LET res == BufReaderRead(readers[h], fs[readers[h].path].data, n)
            IN  /\ readers' = [readers EXCEPT ![h] =
                                 [res.rd EXCEPT !.seen = Given(@, res.out)]]
                /\ UNCHANGED stdinData
    /\ last' = HandleCall
    /\ UNCHANGED <<fs, input, output, writers, stdinOwner, stdoutOwner, stdoutCount,
                   stdoutData, pc, nfSeen>>
    /\ UNCHANGED exitVars

\* impl BufRead for InputReader: fill_buf()
FillBuf(t, h) ==
    /\ Running(t)
    /\ Holds(t, readers, h)
    /\ IF readers[h].kind = "stdin"
       THEN UNCHANGED readers
       ELSE LET f == Filled(readers[h], fs[readers[h].path].data)
            IN  readers' = [readers EXCEPT ![h] =
                               [f EXCEPT !.seen = IF f.buf = <<>> THEN Given(@, <<>>) ELSE @]]
    /\ last' = HandleCall
    /\ UNCHANGED <<fs, input, output, writers, stdinOwner, stdoutOwner, stdoutCount,
                   stdinData, stdoutData, pc, nfSeen>>
    /\ UNCHANGED exitVars

\* impl BufRead for InputReader: consume(amt), of bytes a fill_buf has shown.
Consume(t, h, amt) ==
    /\ Running(t)
    /\ Holds(t, readers, h)
    /\ amt <= (IF readers[h].kind = "stdin" THEN Min(BufCap, Len(stdinData))
                ELSE Len(readers[h].buf))
    /\ IF readers[h].kind = "stdin"
       THEN /\ stdinData' = Drop(stdinData, amt)
            /\ UNCHANGED readers
       ELSE /\ readers' = [readers EXCEPT ![h].seen = Given(@, Take(readers[h].buf, amt)),
                                          ![h].buf = Drop(@, amt)]
            /\ UNCHANGED stdinData
    /\ last' = HandleCall
    /\ UNCHANGED <<fs, input, output, writers, stdinOwner, stdoutOwner, stdoutCount,
                   stdoutData, pc, nfSeen>>
    /\ UNCHANGED exitVars

\* drop(reader): a StdinLock releases the mutex, a BufReader<File> closes the file.
DropReader(t, h) ==
    /\ Running(t)
    /\ Holds(t, readers, h)
    /\ readers' = RemoveAt(readers, h)
    /\ stdinOwner' = IF readers[h].kind = "stdin" THEN Free ELSE stdinOwner
    /\ last' = HandleCall
    /\ UNCHANGED <<fs, input, output, writers, stdoutOwner, stdoutCount, stdinData,
                   stdoutData, pc, nfSeen>>
    /\ UNCHANGED exitVars

\* Write::write(&[b]) through the handle output.write() returned
HandleWrite(t, h, b) ==
    /\ Running(t)
    /\ Holds(t, writers, h)
    /\ IF writers[h].kind = "stdout"
       THEN /\ Len(stdoutData) < MaxOut
            /\ stdoutData' = Append(stdoutData, b)
            /\ UNCHANGED <<fs, readers, writers>>
       ELSE LET w == writers[h]
            IN  /\ w.off < MaxLen
                /\ fs' = [fs EXCEPT ![w.path].data = WriteAt(@, w.off, <<b>>)]
                /\ writers' = [Untrack(writers, w.path, h) EXCEPT
                                  ![h].off = @ + 1, ![h].seen = Given(@, <<b>>)]
                /\ readers' = Untrack(readers, w.path, 0)
                /\ UNCHANGED stdoutData
    /\ last' = HandleCall
    /\ UNCHANGED <<input, output, stdinOwner, stdoutOwner, stdoutCount, stdinData, pc, nfSeen>>
    /\ UNCHANGED exitVars

\* Write::flush(): a File holds no buffer of its own; what was written is on disk.
Flush(t, h) ==
    /\ Running(t)
    /\ Holds(t, writers, h)
    /\ last' = HandleCall
    /\ UNCHANGED ioVars
    /\ UNCHANGED exitVars

\* drop(writer): a StdoutLock gives back one hold of the reentrant mutex.
DropWriter(t, h) ==
    /\ Running(t)
    /\ Holds(t, writers, h)
    /\ writers' = RemoveAt(writers, h)
    /\ IF writers[h].kind = "stdout"
       THEN /\ stdoutCount' = stdoutCount - 1
            /\ stdoutOwner' = IF stdoutCount = 1 THEN Free ELSE stdoutOwner
       ELSE UNCHANGED <<stdoutCount, stdoutOwner>>
    /\ last' = HandleCall
    /\ UNCHANGED <<fs, input, output, readers, stdinOwner, stdinData, stdoutData, pc, nfSeen>>
    /\ UNCHANGED exitVars

\* Another process creates a file where there is none.
CreatedElsewhere(p, f) ==
    /\ proc = "running"
    /\ fs[p] = Absent
    /\ fs' = [fs EXCEPT ![p] = f]
    /\ UNCHANGED <<input, output, readers, writers, stdinOwner, stdoutOwner, stdoutCount,
                   stdinData, stdoutData, pc, nfSeen, last>>
    /\ UNCHANGED exitVars

(* ------------------------------------------------------- specifications *)
NoCall == Returned("none", None, None)

InitCommon ==
    /\ readers = <<>>
    /\ writers = <<>>
    /\ stdinOwner = Free
    /\ stdoutOwner = Free
    /\ stdoutCount = 0
    /\ stdoutData = <<>>
    /\ pc = [t \in Threads |-> "run"]
    /\ last = NoCall
    /\ nfSeen = FALSE
    /\ stderrData = <<>>
    /\ proc = "running"
    /\ exitCode = None
    /\ calls = 0

\* Nothing constructed yet; any files on disk.
InitSel ==
    /\ InitCommon
    /\ fs \in [Paths -> {Absent} \cup FoundFiles]
    /\ input = NoSel
    /\ output = NoSel
    /\ stdinData = <<>>

\* The program is given one file name.
NamedPaths == {"a"}
Init ==
    /\ InitSel
    /\ \A p \in Paths \ NamedPaths : fs[p] = Absent

MainThread == {1}
Handles == 1..MaxHandles
FileArgs == {Some(p) : p \in NamedPaths}

\* One thread, selectors over named files.
Next ==
    \E t \in MainThread :
        \/ \E p \in FileArgs : NewInput(t, p)
        \/ \E p \in FileArgs : NewOutput(t, p)
        \/ BufRead(t)
        \/ Write(t)
        \/ \E h \in Handles, n \in ReadSizes : Read(t, h, n)
        \/ \E h \in Handles : FillBuf(t, h)
        \/ \E h \in Handles, n \in ReadSizes : Consume(t, h, n)
        \/ \E h \in Handles : DropReader(t, h)
        \/ \E h \in Handles, b \in Bytes : HandleWrite(t, h, b)
        \/ \E h \in Handles : Flush(t, h)
        \/ \E h \in Handles : DropWriter(t, h)
        \/ \E p \in NamedPaths, f \in FoundFiles : CreatedElsewhere(p, f)

Spec == Init /\ [][Next]_vars

\* One thread constructing selectors of either variant and opening them.
NextSel ==
    \E t \in MainThread :
        \/ \E p \in PathArgs : NewInput(t, p)
        \/ \E p \in PathArgs : NewOutput(t, p)
        \/ BufRead(t)
        \/ Write(t)
        \/ \E h \in Handles : DropReader(t, h)
        \/ \E h \in Handles : DropWriter(t, h)

SpecSel == InitSel /\ [][NextSel]_vars

\* Several threads sharing selectors over the standard streams.
InitStd ==
    /\ InitCommon
    /\ fs = [p \in Paths |-> Absent]
    /\ input = InputFrom(None)
    /\ output = OutputFrom(None)
    /\ stdinData \in SeqsUpTo(Bytes, MaxIn)

NextStd ==
    \E t \in Threads :
        \/ BufRead(t)
        \/ BufReadLocked(t)
        \/ Write(t)
        \/ WriteLocked(t)
        \/ \E h \in Handles, n \in ReadSizes : Read(t, h, n)
        \/ \E h \in Handles : FillBuf(t, h)
        \/ \E h \in Handles, n \in ReadSizes : Consume(t, h, n)
        \/ \E h \in Handles : DropReader(t, h)
        \/ \E h \in Handles, b \in Bytes : HandleWrite(t, h, b)
        \/ \E h \in Handles : Flush(t, h)
        \/ \E h \in Handles : DropWriter(t, h)

SpecStd == InitStd /\ [][NextStd]_vars

(* ------------------------------------------------------------- or_exit *)
\* fmt::Display of a failure value E.
Display(e) == IF e = "NotFound" THEN <<"n", "f">> ELSE <<"p", "d">>

\* The text "{}: {}" of description and err (Result) ...
FormatErr(description, err) == description \o <<":", " ">> \o Display(err)
\* ... and "{}" of description alone (Option).
FormatNone(description) == description

\* writeln!: the formatted text and a line terminator.
Writeln(text) == text \o <<"\n">>

\* A match whose arms both print and exit.
ResultOrExit_ExitsOnOk(self, description, code) ==
    [ret |-> None,
     line |-> Some(Writeln(IF self.tag = "Ok" THEN FormatNone(description)
                           ELSE FormatErr(description, self.err))),
     code |-> Some(code)]

\* The match of or_exit: what the caller gets back (ret), or the line for the
\* error stream and the code for process::exit.
ResultOrExit(self, description, code) ==
    IF self.tag = "Ok"
    THEN [ret |-> Some(self.val), line |-> None, code |-> None]
    ELSE [ret |-> None, line |-> Some(Writeln(FormatErr(description, self.err))),
          code |-> Some(code)]

OptionOrExit(self, description, code) ==
    IF self.tag = "Some"
    THEN [ret |-> Some(self.val), line |-> None, code |-> None]
    ELSE [ret |-> None, line |-> Some(Writeln(FormatNone(description))), code |-> Some(code)]

\* The call, as its caller made it: the receiver, the arguments and the error
\* stream as it was.
OrExitCall(self, description, code) ==
    [self |-> self, description |-> description, code |-> code, before |-> stderrData]

\* What a match outcome does.  A value is returned.  Otherwise stderr! writes
\* the line and process::exit(code) ends the process; when the write fails,
\* with any part of the line written, r.expect(..) panics instead and
\* process::exit is not reached.
Perform(call, outcome) ==
    /\ proc = "running"
    /\ calls < MaxCalls
    /\ calls' = calls + 1
    /\ last' = Returned("or_exit", call, outcome.ret)
    /\ IF outcome.line = None
       THEN UNCHANGED <<stderrData, proc, exitCode>>
       ELSE \/ /\ stderrData' = stderrData \o outcome.line.val
               /\ proc' = "exited"
               /\ exitCode' = outcome.code
            \/ \E k \in 0..(Len(outcome.line.val) - 1) :
                  /\ stderrData' = stderrData \o Take(outcome.line.val, k)
                  /\ proc' = "panicked"
                  /\ UNCHANGED exitCode
    /\ UNCHANGED ioVars

\* impl OrExit for Result<R, E>
OrExitResult(self, description, code) ==
    Perform(OrExitCall(self, description, code), ResultOrExit(self, description, code))

\* impl OrExit for Option<R>
OrExitOption(self, description, code) ==
    Perform(OrExitCall(self, description, code), OptionOrExit(self, description, code))

Values == {1, 2}
Failures == {"NotFound", "PermissionDenied"}
Messages == {<<"m">>, <<"n", "o">>}
Codes == {0, 1, 2}
Results == {Ok(v) : v \in Values} \cup {Err(e) : e \in Failures}
Options == {Some(v) : v \in Values} \cup {None}

InitExit ==
    /\ InitCommon
    /\ fs = [p \in Paths |-> Absent]
    /\ input = NoSel
    /\ output = NoSel
    /\ stdinData = <<>>

NextExit ==
    \/ \E r \in Results, m \in Messages, c \in Codes : OrExitResult(r, m, c)
    \/ \E o \in Options, m \in Messages, c \in Codes : OrExitOption(o, m, c)

SpecExit == InitExit /\ [][NextExit]_vars

(* ------------------------------------------------------------ properties *)
IsFileReader(r) == r.kind = "file"
IsFileWriter(w) == w.kind = "file"
LockedStdin(r) == r.kind = "stdin" /\ r.locked
LockedStdout(w) == w.kind = "stdout" /\ w.locked

\* C1: Input::from(p) and Output::from(p) give the file variant holding p
\* exactly when p is present and the standard-stream variant exactly when p is
\* absent; the call touches no file or handle, and it can always be made and
\* always returns a selector, whether or not a file is at p.
C1_FromState ==
    /\ last.op = "Input::from" =>
          /\ last.res = input
          /\ (last.arg.tag = "Some" <=> input.tag = "File")
          /\ (last.arg.tag = "None" <=> input.tag = "Stdin")
          /\ (last.arg.tag = "Some" => input.path.inner = last.arg.val)
    /\ last.op = "Output::from" =>
          /\ last.res = output
          /\ (last.arg.tag = "Some" <=> output.tag = "File")
          /\ (last.arg.tag = "None" <=> output.tag = "Stdout")
          /\ (last.arg.tag = "Some" => output.path.inner = last.arg.val)
    /\ \A t \in MainThread : Running(t) =>
          \A p \in PathArgs : ENABLED NewInput(t, p) /\ ENABLED NewOutput(t, p)
C1_FromStep ==
    (\E t \in MainThread, p \in PathArgs : NewInput(t, p) \/ NewOutput(t, p)) =>
        /\ fs' = fs
        /\ readers' = readers /\ writers' = writers
        /\ stdinOwner' = stdinOwner /\ stdoutOwner' = stdoutOwner
        /\ proc' = "running"
C1_From == []C1_FromState /\ [][C1_FromStep]_vars
C1_Witness ==
    /\ last.op = "Output::from" /\ last.arg = None
    /\ input.tag = "File" /\ fs[input.path.inner] = Absent

\* C2 (as claimed): or_exit on Err(e) with message m and code c writes exactly
\* the line "m: e" to the error stream, then ends the process with code c,
\* and does not return.
C2_ErrWritesLineThenExits ==
    (last.op = "or_exit" /\ last.arg.self.tag = "Err") =>
        /\ stderrData = last.arg.before \o last.arg.description \o <<":", " ">>
                           \o Display(last.arg.self.err) \o <<"\n">>
        /\ proc = "exited"
        /\ exitCode = Some(last.arg.code)
        /\ last.res = None

\* C2, where the code agrees with it: whenever the write to the error stream
\* went through.
C2_HoldsWhenLineWritten ==
    (last.op = "or_exit" /\ last.arg.self.tag = "Err" /\ proc # "panicked") =>
        /\ stderrData = last.arg.before \o last.arg.description \o <<":", " ">>
                           \o Display(last.arg.self.err) \o <<"\n">>
        /\ proc = "exited"
        /\ exitCode = Some(last.arg.code)
        /\ last.res = None

\* C3 (as claimed): or_exit on None with message m and code c writes exactly
\* the line "m" to the error stream, then ends the process with code c, and
\* does not return.
C3_NoneWritesLineThenExits ==
    (last.op = "or_exit" /\ last.arg.self.tag = "None") =>
        /\ stderrData = last.arg.before \o last.arg.description \o <<"\n">>
        /\ proc = "exited"
        /\ exitCode = Some(last.arg.code)
        /\ last.res = None

\* C3, where the code agrees with it: whenever the write to the error stream
\* went through.
C3_HoldsWhenLineWritten ==
    (last.op = "or_exit" /\ last.arg.self.tag = "None" /\ proc # "panicked") =>
        /\ stderrData = last.arg.before \o last.arg.description \o <<"\n">>
        /\ proc = "exited"
        /\ exitCode = Some(last.arg.code)
        /\ last.res = None

\* C4: or_exit on Ok(v) or Some(v) returns v, writes nothing to the error
\* stream and leaves the process running, for every message and code.
C4_SuccessReturnsValue ==
    (last.op = "or_exit" /\ last.arg.self.tag \in {"Ok", "Some"}) =>
        /\ last.res = Some(last.arg.self.val)
        /\ stderrData = last.arg.before
        /\ proc = "running"
        /\ exitCode = None
C4_Witness ==
    /\ last.op = "or_exit" /\ last.arg.self.tag = "Ok" /\ last.arg.code # 0
    /\ calls = MaxCalls

\* C5: the bytes written through a handle of Output::write on a file, and
\* nothing else since that call, are exactly what a handle of Input::buf_read
\* on the same path, opened afterwards, has delivered when it reports
\* end-of-stream.
C5_RoundTrip ==
    \A w \in 1..Len(writers), r \in 1..Len(readers) :
        (/\ IsFileWriter(writers[w]) /\ IsFileReader(readers[r])
         /\ writers[w].path = readers[r].path
         /\ writers[w].seen.valid
         /\ readers[r].seen.valid /\ readers[r].seen.eof)
        => readers[r].seen.bytes = writers[w].seen.bytes
C5_Witness ==
    \E w \in 1..Len(writers), r \in 1..Len(readers) :
        /\ IsFileWriter(writers[w]) /\ IsFileReader(readers[r])
        /\ writers[w].seen.valid /\ readers[r].seen.valid /\ readers[r].seen.eof
        /\ Len(writers[w].seen.bytes) = MaxLen
        /\ writers[w].seen.bytes[1] = 1 /\ writers[w].seen.bytes[MaxLen] = 0

\* C6 (as claimed): buf_read on a File input whose path does not exist returns
\* the not-found failure and changes nothing, and a later buf_read on the
\* same selector succeeds once the file exists.
C6_BufReadStep(t) == BufRead(t) /\ input.tag = "File"
C6_LaterReadSucceedsOnceFileExists ==
    [][\A t \in MainThread : C6_BufReadStep(t) =>
          /\ fs[input.path.inner] = Absent =>
                last'.res = Err("NotFound") /\ readers' = readers
          /\ input' = input /\ fs' = fs /\ proc' = "running"
          /\ (nfSeen /\ fs[input.path.inner] # Absent) => last'.res.tag = "Ok"]_vars

\* C6 (amended): ... and a later buf_read on the same selector succeeds once
\* the file exists and this process may read it.
C6_LaterReadSucceedsOnceFileReadable ==
    [][\A t \in MainThread : C6_BufReadStep(t) =>
          /\ fs[input.path.inner] = Absent =>
                last'.res = Err("NotFound") /\ readers' = readers
          /\ input' = input /\ fs' = fs /\ proc' = "running"
          /\ (nfSeen /\ fs[input.path.inner] # Absent /\ fs[input.path.inner].r) =>
                /\ last'.res.tag = "Ok"
                /\ Len(readers') = Len(readers) + 1
          /\ (fs[input.path.inner] # Absent /\ ~fs[input.path.inner].r) =>
                last'.res = Err("PermissionDenied")]_vars
C6_Witness == nfSeen /\ last.op = "buf_read" /\ last.res.tag = "Ok"

\* C9: right after every successful Output::write on a File output the file
\* at the stored path exists and is empty, whatever was written or opened before.
C9_WriteLeavesEmptyFile ==
    (last.op = "write" /\ last.res.tag = "Ok" /\ output.tag = "File") =>
        /\ fs[output.path.inner] # Absent
        /\ fs[output.path.inner].data = <<>>
C9_Witness ==
    /\ last.op = "write" /\ last.res.tag = "Ok" /\ output.tag = "File"
    /\ Len(writers) = 2
    /\ IsFileWriter(writers[1]) /\ writers[1].off = MaxLen

\* C10: every Input::buf_read on a File input hands out a handle that starts
\* at the first byte of the file, leaving every earlier handle where it was;
\* each handle delivers the file's content from its start, all of it by the
\* time it reports end-of-stream.
C10_OpenStep ==
    \A t \in MainThread :
        (BufRead(t) /\ input.tag = "File" /\ last'.res.tag = "Ok") =>
            /\ Len(readers') = Len(readers) + 1
            /\ SubSeq(readers', 1, Len(readers)) = readers
            /\ readers'[Len(readers')].off = 0
            /\ readers'[Len(readers')].buf = <<>>
            /\ readers'[Len(readers')].path = input.path.inner
C10_Delivered ==
    \A r \in 1..Len(readers) :
        (IsFileReader(readers[r]) /\ readers[r].seen.valid) =>
            LET data == fs[readers[r].path].data
                got == readers[r].seen.bytes
            IN  /\ Len(got) <= Len(data)
                /\ got = Take(data, Len(got))
                /\ readers[r].seen.eof => got = data
C10_EachHandleReadsFromStart == []C10_Delivered /\ [][C10_OpenStep]_vars
C10_Witness ==
    /\ Len(readers) = 2
    /\ \A r \in 1..2 :
          /\ IsFileReader(readers[r]) /\ readers[r].seen.valid /\ readers[r].seen.eof
          /\ Len(readers[r].seen.bytes) = MaxLen

\* C7 (as claimed): a buf_read call on a Stdin input returns a handle also
\* when it is made while a handle from an earlier request is still held: no
\* call is left waiting for a handle that its own caller holds.
C7_CallReturnsWhileHandleHeld ==
    \A t \in Threads : ~(pc[t] = "lock_stdin" /\ stdinOwner = t)

\* C7 (amended): buf_read on a Stdin input never returns a failure.  A call
\* made while no handle over standard input is held returns a handle at once;
\* a call made while one is held does not return before that handle is
\* dropped, and never when the caller itself holds it.
C7_NeverFails == last.op = "buf_read" => last.res.tag # "Err"
C7_CallStep ==
    \A t \in Threads :
        (BufRead(t) /\ input.tag = "Stdin") =>
            IF stdinOwner = Free
            THEN /\ last'.res = Ok("InputReader")
                 /\ pc'[t] = "run"
                 /\ stdinOwner' = t
                 /\ readers' = Append(readers, StdinReader(t, TRUE))
            ELSE /\ pc'[t] = "lock_stdin"
                 /\ stdinOwner' = stdinOwner
C7_ReturnStep ==
    \A t \in Threads :
        (pc[t] = "lock_stdin" /\ pc'[t] = "run") =>
            /\ stdinOwner = Free
            /\ stdinOwner' = t
            /\ last'.res = Ok("InputReader")
C7_StuckOnOwnHandle ==
    \A t \in Threads :
        (pc[t] = "lock_stdin" /\ stdinOwner = t) => (pc'[t] = "lock_stdin" /\ stdinOwner' = t)
C7_BlocksWhileHandleHeld ==
    /\ []C7_NeverFails
    /\ [][C7_CallStep /\ C7_ReturnStep /\ C7_StuckOnOwnHandle]_vars
C7_Witness ==
    \E t \in Threads, r \in 1..Len(readers) :
        /\ LockedStdin(readers[r]) /\ readers[r].owner = t
        /\ last.op = "buf_read" /\ last.res.tag = "Ok"
        /\ stdinData = <<>>
        /\ \E u \in Threads \ {t} : pc[u] = "lock_stdin"

\* C8: while a thread holds a handle over standard input, or over standard
\* output, no other thread holds one over the same stream, and only a holder
\* reads from or writes to the stream; once the handles are dropped the
\* stream can be taken again.
C8_OneHolder ==
    /\ \A r \in 1..Len(readers) : LockedStdin(readers[r]) => readers[r].owner = stdinOwner
    /\ \A w \in 1..Len(writers) : LockedStdout(writers[w]) => writers[w].owner = stdoutOwner
    /\ \A r1, r2 \in 1..Len(readers) :
          (LockedStdin(readers[r1]) /\ LockedStdin(readers[r2])) =>
              readers[r1].owner = readers[r2].owner
    /\ \A w1, w2 \in 1..Len(writers) :
          (LockedStdout(writers[w1]) /\ LockedStdout(writers[w2])) =>
              writers[w1].owner = writers[w2].owner
    /\ (\A r \in 1..Len(readers) : ~LockedStdin(readers[r])) =>
          \A t \in Threads :
              /\ (Running(t) /\ Live < MaxHandles) => ENABLED (BufRead(t) /\ stdinOwner' = t)
              /\ pc[t] = "lock_stdin" => ENABLED BufReadLocked(t)
    /\ (\A w \in 1..Len(writers) : ~LockedStdout(writers[w])) =>
          \A t \in Threads :
              /\ (Running(t) /\ Live < MaxHandles) => ENABLED (Write(t) /\ stdoutOwner' = t)
              /\ pc[t] = "lock_stdout" => ENABLED WriteLocked(t)
C8_AccessStep ==
    /\ stdinData' # stdinData =>
          \E r \in 1..Len(readers) : LockedStdin(readers[r]) /\ pc[readers[r].owner] = "run"
    /\ stdoutData' # stdoutData =>
          \E w \in 1..Len(writers) : LockedStdout(writers[w]) /\ pc[writers[w].owner] = "run"
C8_ExclusiveAccess == []C8_OneHolder /\ [][C8_AccessStep]_vars
C8_Witness ==
    \E t \in Threads, u \in Threads :
        /\ t # u
        /\ stdoutOwner = t /\ stdoutCount = 1
        /\ pc[u] = "lock_stdout"
        /\ stdoutData # <<>>

====
